---- MODULE Spec2Model ----
(***************************************************************************)
(* Model of the alignment engines of wii-code-tools: the content-based     *)
(* aligner (auto_align_by_data.py: check_match_at, find_random_match,      *)
(* DifferencesTracker, find_division_points_in_range, diff) and the        *)
(* cross-reference aligner (auto_align_by_xrefs.py).                       *)
(*                                                                         *)
(* Python lists and bytes objects are sequences; Python index i is         *)
(* sequence index i + 1.  An entry (address, offset) of                    *)
(* known_address_offsets is the pair <<address, offset>>.                  *)
(***************************************************************************)
EXTENDS Integers, Sequences, FiniteSets, TLC

\* ---------------------------------------------------------------- bounds
\* Addresses handled by the tracker are 0 .. MaxAddress.
MaxAddress == 3
\* Offsets (address deltas) are 0 .. MaxOffset.
MaxOffset == 1
\* Reports are only issued while the tracker has fewer entries than this.
MaxEntries == 4
\* Byte values of the matcher's buffers are 0 .. MaxByte.
MaxByte == 1
\* Longest data_a / data_b buffer of the matcher.
MaxLenA == 2
MaxLenB == 3
\* Largest snippet size asked of the matcher.
MaxSize == 2

Addresses == 0 .. MaxAddress
Offsets == 0 .. MaxOffset
Bytes == 0 .. MaxByte

VARIABLES
    known_address_offsets,  \* DifferencesTracker.known_address_offsets
    last_address,           \* DifferencesTracker.last_address
    last_offset,            \* DifferencesTracker.last_offset
    ctor,                   \* the arguments the tracker was constructed with
    call,                   \* the last tracker call: arguments, state before, result
    data_a,                 \* check_match_at argument data_a
    data_b,                 \* check_match_at argument data_b
    offset,                 \* check_match_at argument offset
    size,                   \* check_match_at argument size
    match,                  \* result of check_match_at, Pending before the call
    frm,                    \* the call of find_random_match: arguments, loop state, result
    xrefs_1,                \* auto_align_by_xrefs argument: destination -> origins
    xrefs_2,                \* auto_align_by_xrefs argument, as its items() in dict order
    mapper,                 \* the address mapper pair: version-1 origin -> version-2 origin
    reverse_xrefs_2,        \* the inverted map origin -> destination
    ambiguous,              \* origins removed from the inverted map
    xpc,                    \* where auto_align_by_xrefs stands
    next_2,                 \* number of xrefs_2 items already inverted
    next_1,                 \* number of sorted xrefs_1 keys already scanned
    current_range_start,    \* running range start (None before the first change)
    current_range_delta,    \* running delta (None before the first sample)
    printed,                \* the lines printed so far
    sample,                 \* the last destination scanned: votes and outcome
    code_file_a,            \* diff argument: the sections of the first file
    code_file_b,            \* diff argument: the sections of the second file
    dpc,                    \* where diff stands, or the exception that ended it
    section_index,          \* i of diff's loop over the section pairs
    stack,                  \* the active calls of find_division_points_in_range
    reported,               \* a report reached the tracker of the current section
    out                     \* what diff has printed so far

tracker_vars == <<known_address_offsets, last_address, last_offset, ctor, call>>
match_vars == <<data_a, data_b, offset, size, match, frm>>
xref_vars == <<xrefs_1, xrefs_2, mapper, reverse_xrefs_2, ambiguous, xpc,
               next_2, next_1, current_range_start, current_range_delta,
               printed, sample>>
diff_vars == <<code_file_a, code_file_b, dpc, section_index, stack, reported, out>>
vars == <<known_address_offsets, last_address, last_offset, ctor, call,
          data_a, data_b, offset, size, match, frm,
          xrefs_1, xrefs_2, mapper, reverse_xrefs_2, ambiguous, xpc,
          next_2, next_1, current_range_start, current_range_delta,
          printed, sample,
          code_file_a, code_file_b, dpc, section_index, stack, reported, out>>

\* ------------------------------------------------------- optional results
None == [kind |-> "None", val |-> 0]
Some(v) == [kind |-> "int", val |-> v]
\* The matcher has not been called (yet).
Idle == [kind |-> "idle", val |-> 0]
Pending == [kind |-> "pending", val |-> 0]

Min(S) == CHOOSE x \in S : \A y \in S : x <= y
Max(S) == CHOOSE x \in S : \A y \in S : x >= y

\* ------------------------------------------------------------ bytes model
\* Python's index normalisation of a slice bound i for a sequence of length n.
slice_index(i, n) ==
    IF i < 0 THEN (IF i + n < 0 THEN 0 ELSE i + n)
    ELSE (IF i > n THEN n ELSE i)

\* data[start : stop] with Python's clamping and negative-index rules.
slice(data, start, stop) ==
    LET s == slice_index(start, Len(data))
        e == slice_index(stop, Len(data))
    IN IF s < e THEN SubSeq(data, s + 1, e) ELSE <<>>

\* any(snippet): some byte is non-zero.
any(snippet) == \E i \in 1 .. Len(snippet) : snippet[i] # 0

\* snippet occurs in data starting at Python position p.
occurs_at(data, snippet, p) ==
    /\ p >= 0
    /\ p + Len(snippet) <= Len(data)
    /\ \A i \in 1 .. Len(snippet) : data[p + i] = snippet[i]

\* bytes.count(snippet): occurrences counted left to right WITHOUT overlap;
\* after a hit the scan resumes behind the hit.
RECURSIVE count_from(_, _, _)
count_from(data, snippet, p) ==
    LET hits == {q \in p .. Len(data) - Len(snippet) : occurs_at(data, snippet, q)}
    IN IF hits = {} THEN 0
       ELSE 1 + count_from(data, snippet, Min(hits) + Len(snippet))

count(data, snippet) ==
    IF Len(snippet) = 0 THEN Len(data) + 1 ELSE count_from(data, snippet, 0)

\* bytes.find(snippet): lowest position of an occurrence, -1 if none.
find(data, snippet) ==
    LET hits == {p \in 0 .. Len(data) : occurs_at(data, snippet, p)}
    IN IF hits = {} THEN -1 ELSE Min(hits)

\* Mutant of check_match_at: the all-zero test is missing.
check_match_at_no_zero_test(a, b, offs, sz) ==
    CHOOSE found \in {IF count(b, snippet) # 1 THEN None
                      ELSE Some(find(b, snippet)) :
                      snippet \in {slice(a, offs, offs + sz)}} : TRUE

\* check_match_at: the snippet is taken once, then tested and searched for;
\* the value is the one element of the set built from that one snippet.
check_match_at(a, b, offs, sz) ==
    CHOOSE found \in {IF ~any(snippet) THEN None
                      ELSE IF count(b, snippet) # 1 THEN None
                      ELSE Some(find(b, snippet)) :
                      snippet \in {slice(a, offs, offs + sz)}} : TRUE

\* ---------------------------------------------------------- tracker model
\* DifferencesTracker.__init__
DifferencesTracker(fa, fo, la, lo) ==
    [known_address_offsets |-> << <<fa, fo>>, <<la, lo>> >>,
     last_address |-> la,
     last_offset |-> lo]

first_address(self) == self.known_address_offsets[1][1]
first_offset(self) == self.known_address_offsets[1][2]

\* Python list indexing kao[i] for i >= -1 (index -1 is the last element).
at(kao, i) == IF i < 0 THEN kao[Len(kao) + i + 1] ELSE kao[i + 1]

\* expected_offset_at: the entry before the first entry whose address is
\* greater than the query; the loop falls through (None) when there is none.
expected_offset_at(self, address) ==
    LET kao == self.known_address_offsets
        later == {i \in 0 .. Len(kao) - 1 : at(kao, i)[1] > address}
    IN IF later = {} THEN None
       ELSE Some(at(kao, Min(later) - 1)[2])

\* Mutant of in_bounds: the upper bound is inclusive.
in_bounds_inclusive(self, address) ==
    first_address(self) <= address /\ address <= self.last_address

\* The range test of report_offset_at_address.
in_bounds(self, address) ==
    first_address(self) <= address /\ address < self.last_address

\* The loop over reversed(known_address_offsets): the number of trailing
\* entries whose address is greater than address; entry_index_from_end is
\* that number minus one, and None (here -1) when the number is zero.
entry_index_from_end(kao, address) ==
    Max({k \in 0 .. Len(kao) :
            \A m \in 0 .. k - 1 : at(kao, Len(kao) - 1 - m)[1] > address}) - 1

\* Mutant of next_entry_id: off by one, the entry one position too early.
next_entry_id_off_by_one(kao, eife) ==
    IF eife = -1 THEN Len(kao) ELSE Len(kao) - eife - 2

next_entry_id(kao, eife) ==
    IF eife = -1 THEN Len(kao) ELSE Len(kao) - eife - 1

\* Mutant of prev_offset: at the end of the list the constructor's
\* last_offset is used instead of the last entry's offset.
prev_offset_from_field(self, eife) ==
    LET kao == self.known_address_offsets
    IN IF eife = -1 THEN self.last_offset
       ELSE at(kao, next_entry_id(kao, eife) - 1)[2]

prev_offset(self, eife) ==
    LET kao == self.known_address_offsets
    IN IF eife = -1 THEN at(kao, -1)[2]
       ELSE at(kao, next_entry_id(kao, eife) - 1)[2]

\* Mutant of insert: the entry is appended at the end of the list.
insert_at_end(kao, i, x) == Append(kao, x)

\* list.insert(i, x) for 0 <= i <= len.
insert(kao, i, x) ==
    SubSeq(kao, 1, i) \o <<x>> \o SubSeq(kao, i + 1, Len(kao))

\* kao[i] = x for 0 <= i < len.
assign(kao, i, x) == [kao EXCEPT ![i + 1] = x]

\* Mutant of report_offset_at_address: the preceding entry's offset is
\* tested before the following entry's offset.
report_offset_at_address_prev_first(self, address, offs) ==
    LET kao == self.known_address_offsets
        eife == entry_index_from_end(kao, address)
        nid == next_entry_id(kao, eife)
    IN IF ~in_bounds(self, address)
       THEN [known_address_offsets |-> kao, ret |-> "ValueError"]
       ELSE IF offs = prev_offset(self, eife)
       THEN [known_address_offsets |-> kao, ret |-> "False"]
       ELSE IF eife # -1 /\ offs = at(kao, nid)[2]
       THEN [known_address_offsets |-> assign(kao, nid, <<address, offs>>),
             ret |-> "False"]
       ELSE [known_address_offsets |-> insert(kao, nid, <<address, offs>>),
             ret |-> "True"]

\* Mutant of report_offset_at_address: a report with the preceding entry's
\* offset is not ignored.
report_offset_at_address_no_ignore(self, address, offs) ==
    LET kao == self.known_address_offsets
        eife == entry_index_from_end(kao, address)
        nid == next_entry_id(kao, eife)
    IN IF ~in_bounds(self, address)
       THEN [known_address_offsets |-> kao, ret |-> "ValueError"]
       ELSE IF eife # -1 /\ offs = at(kao, nid)[2]
       THEN [known_address_offsets |-> assign(kao, nid, <<address, offs>>),
             ret |-> "False"]
       ELSE [known_address_offsets |-> insert(kao, nid, <<address, offs>>),
             ret |-> "True"]

\* report_offset_at_address: the new entry list and the returned value
\* ("ValueError" when the call raises).
report_offset_at_address(self, address, offs) ==
    LET kao == self.known_address_offsets
        eife == entry_index_from_end(kao, address)
        nid == next_entry_id(kao, eife)
    IN IF ~in_bounds(self, address)
       THEN [known_address_offsets |-> kao, ret |-> "ValueError"]
       ELSE IF eife # -1 /\ offs = at(kao, nid)[2]
       THEN [known_address_offsets |-> assign(kao, nid, <<address, offs>>),
             ret |-> "False"]
       ELSE IF offs = prev_offset(self, eife)
       THEN [known_address_offsets |-> kao, ret |-> "False"]
       ELSE [known_address_offsets |-> insert(kao, nid, <<address, offs>>),
             ret |-> "True"]

\* Mutant of delete_redundant: of two entries with one offset the later
\* one is kept.
RECURSIVE delete_redundant_keep_later(_, _)
delete_redundant_keep_later(kao, i) ==
    IF i < 0 THEN kao
    ELSE IF at(kao, i)[2] = at(kao, i + 1)[2]
         THEN delete_redundant_keep_later(SubSeq(kao, 1, i) \o SubSeq(kao, i + 2, Len(kao)), i - 1)
         ELSE delete_redundant_keep_later(kao, i - 1)

\* "Delete redundant ranges" of print_results: i runs from len - 2 down to
\* 0 and entry i + 1 is deleted when it carries entry i's offset.
RECURSIVE delete_redundant(_, _)
delete_redundant(kao, i) ==
    IF i < 0 THEN kao
    ELSE IF at(kao, i)[2] = at(kao, i + 1)[2]
         THEN delete_redundant(SubSeq(kao, 1, i + 1) \o SubSeq(kao, i + 3, Len(kao)), i - 1)
         ELSE delete_redundant(kao, i - 1)

\* A line of the report: first address, last address (None for '*') and offset.
report_line(addr, next_addr, offs) ==
    [kind |-> "range", start |-> addr, end |-> next_addr, offs |-> offs]

\* print_results: the lines printed for the tracker, and the empty line
\* that ends them.
print_results(self) ==
    LET kao_copy == delete_redundant(self.known_address_offsets,
                                     Len(self.known_address_offsets) - 2)
    IN [i \in 1 .. Len(kao_copy) |->
           report_line(kao_copy[i][1],
                       IF i < Len(kao_copy) THEN Some(kao_copy[i + 1][1] - 1) ELSE None,
                       kao_copy[i][2])]
       \o <<[kind |-> "blank"]>>

\* The tracker object of the current state.
tracker ==
    [known_address_offsets |-> known_address_offsets,
     last_address |-> last_address,
     last_offset |-> last_offset]

\* ------------------------------------------------- tracker specification
NoCall ==
    [op |-> "init", address |-> 0, offset |-> 0, pre |-> <<>>,
     ret |-> "None", val |-> None]

\* find_random_match is not running.
FrmIdle == [pc |-> "idle", start |-> 0, end |-> 0, k |-> 0, j |-> 0,
            tried |-> <<0, 0>>, ret |-> <<>>]

MatchIdle ==
    /\ data_a = <<>>
    /\ data_b = <<>>
    /\ offset = 0
    /\ size = 0
    /\ match = Idle
    /\ frm = FrmIdle

\* diff is not running.
DiffIdle ==
    /\ code_file_a = <<>>
    /\ code_file_b = <<>>
    /\ dpc = "idle"
    /\ section_index = 0
    /\ stack = <<>>
    /\ reported = FALSE
    /\ out = <<>>

\* auto_align_by_xrefs is not running.
XrefIdle ==
    /\ xrefs_1 = <<>>
    /\ xrefs_2 = <<>>
    /\ mapper = <<>>
    /\ reverse_xrefs_2 = <<>>
    /\ ambiguous = {}
    /\ xpc = "idle"
    /\ next_2 = 0
    /\ next_1 = 0
    /\ current_range_start = None
    /\ current_range_delta = None
    /\ printed = <<>>
    /\ sample = <<>>

\* A tracker freshly constructed over a non-empty interval.
Init ==
    /\ \E fa \in {0, 1}, la \in Addresses, fo \in Offsets, lo \in Offsets :
          /\ fa < la
          /\ ctor = [first_address |-> fa, first_offset |-> fo,
                     last_address |-> la, last_offset |-> lo]
          /\ known_address_offsets = DifferencesTracker(fa, fo, la, lo).known_address_offsets
          /\ last_address = DifferencesTracker(fa, fo, la, lo).last_address
          /\ last_offset = DifferencesTracker(fa, fo, la, lo).last_offset
    /\ call = NoCall
    /\ MatchIdle
    /\ XrefIdle
    /\ DiffIdle

\* print_results is the last call made on a tracker: diff prints a tracker
\* after the reports and does not use it again.
InUse == call.op # "print"

\* tracker.report_offset_at_address(address, offs)
ReportOffsetAtAddress ==
    \E address \in Addresses, offs \in Offsets :
        LET r == report_offset_at_address(tracker, address, offs)
        IN /\ InUse
           /\ Len(known_address_offsets) < MaxEntries
           /\ known_address_offsets' = r.known_address_offsets
           /\ call' = [op |-> "report", address |-> address, offset |-> offs,
                       pre |-> known_address_offsets, ret |-> r.ret, val |-> None]
           /\ UNCHANGED <<last_address, last_offset, ctor>>
           /\ UNCHANGED match_vars
           /\ UNCHANGED xref_vars
           /\ UNCHANGED diff_vars

\* tracker.expected_offset_at(address)
ExpectedOffsetAt ==
    \E address \in Addresses :
        /\ InUse
        /\ call' = [op |-> "expected", address |-> address, offset |-> 0,
                    pre |-> known_address_offsets, ret |-> "value",
                    val |-> expected_offset_at(tracker, address)]
        /\ UNCHANGED <<known_address_offsets, last_address, last_offset, ctor>>
        /\ UNCHANGED match_vars
        /\ UNCHANGED xref_vars
        /\ UNCHANGED diff_vars

\* tracker.print_results(): the printed lines go to out.
TrackerPrintResults ==
    /\ InUse
    /\ call' = [op |-> "print", address |-> 0, offset |-> 0,
                pre |-> known_address_offsets, ret |-> "None", val |-> None]
    /\ out' = print_results(tracker)
    /\ UNCHANGED <<known_address_offsets, last_address, last_offset, ctor>>
    /\ UNCHANGED <<code_file_a, code_file_b, dpc, section_index, stack, reported>>
    /\ UNCHANGED match_vars
    /\ UNCHANGED xref_vars

Next == ReportOffsetAtAddress \/ ExpectedOffsetAt \/ TrackerPrintResults

Spec == Init /\ [][Next]_vars

\* ------------------------------------------------- matcher specification
RECURSIVE SeqsUpTo(_, _)
SeqsUpTo(S, n) ==
    IF n = 0 THEN {<<>>}
    ELSE LET shorter == SeqsUpTo(S, n - 1)
         IN shorter \cup {Append(s, x) : s \in {t \in shorter : Len(t) = n - 1}, x \in S}

TrackerIdle ==
    /\ ctor = [first_address |-> 0, first_offset |-> 0,
               last_address |-> 1, last_offset |-> 0]
    /\ known_address_offsets = DifferencesTracker(0, 0, 1, 0).known_address_offsets
    /\ last_address = 1
    /\ last_offset = 0
    /\ call = NoCall

InitMatch ==
    /\ TrackerIdle
    /\ data_a \in SeqsUpTo(Bytes, MaxLenA)
    /\ data_b \in SeqsUpTo(Bytes, MaxLenB)
    /\ offset \in (0 - MaxLenA - 1) .. (MaxLenA + 1)
    /\ size \in 0 .. MaxSize
    /\ match = Pending
    /\ frm = FrmIdle
    /\ XrefIdle
    /\ DiffIdle

\* check_match_at(data_a, data_b, offset, size)
CheckMatchAt ==
    /\ match = Pending
    /\ match' = check_match_at(data_a, data_b, offset, size)
    /\ UNCHANGED <<data_a, data_b, offset, size, frm>>
    /\ UNCHANGED tracker_vars
    /\ UNCHANGED xref_vars
    /\ UNCHANGED diff_vars

NextMatch == CheckMatchAt

SpecMatch == InitMatch /\ [][NextMatch]_vars

\* ------------------------------------------------ vocabulary of the claims
\* The last call was a report that passed the range test.
ValidReport == call.op = "report" /\ call.ret # "ValueError"

\* The tracker as it was before the last call.
pre_tracker ==
    [known_address_offsets |-> call.pre,
     last_address |-> last_address,
     last_offset |-> last_offset]

StrictlyIncreasing(kao) ==
    \A i \in 1 .. Len(kao) - 1 : kao[i][1] < kao[i + 1][1]

\* Sequence positions (1-based) of the entries at or before / after an address.
AtOrBefore(kao, address) == {i \in 1 .. Len(kao) : kao[i][1] <= address}
After(kao, address) == {i \in 1 .. Len(kao) : kao[i][1] > address}

\* The entry with the greatest address <= address; among entries sharing
\* that address the last one, whose segment is the one that is not empty.
Preceding(kao, address) ==
    Max({i \in AtOrBefore(kao, address) :
            \A j \in AtOrBefore(kao, address) : kao[j][1] <= kao[i][1]})

\* The first breakpoint whose address is greater than address.
Following(kao, address) == Min(After(kao, address))

\* ------------------------------------------------------------------ C1
\* C1: after any sequence of in-range reports the addresses in
\* known_address_offsets are strictly increasing.
\* Violated: a report at an existing breakpoint's address whose offset
\* equals the following breakpoint's offset pulls the following breakpoint
\* onto the same address.
C1_AddressesStrictlyIncreasing == StrictlyIncreasing(known_address_offsets)

\* ------------------------------------------------------------------ C2
\* C2: a valid report whose offset equals expected_offset_at(address)
\* leaves known_address_offsets exactly unchanged.
\* Violated: when the preceding and the following breakpoint carry the same
\* offset, the following breakpoint is pulled back.
C2_RedundantReportUnchanged ==
    (ValidReport /\ expected_offset_at(pre_tracker, call.address) = Some(call.offset))
        => known_address_offsets = call.pre

\* ------------------------------------------------------------------ C3
\* The snippet check_match_at extracts, and the start positions at which
\* it occurs in data_b (every start position, overlapping ones included).
Snippet == slice(data_a, offset, offset + size)
Occurrences == {p \in 0 .. Len(data_b) : occurs_at(data_b, Snippet, p)}

\* C3: check_match_at returns a position if and only if the snippet occurs
\* in data_b at exactly one start position, overlapping occurrences
\* included, and the returned position is an occurrence.  Stated for
\* snippets holding a non-zero byte (all-zero snippets are C4's case).
\* Violated: bytes.count does not count overlapping occurrences.
C3_UniqueMatchIff ==
    (match # Pending /\ any(Snippet)) =>
        /\ (match # None) <=> (Cardinality(Occurrences) = 1)
        /\ (match # None) => slice(data_b, match.val, match.val + Len(Snippet)) = Snippet

\* ------------------------------------------------------------------ C4
\* C4: check_match_at returns None whenever the extracted snippet is all
\* zero bytes or empty, whatever data_b contains.
C4_ZeroSnippetNeverMatches ==
    (match # Pending /\ ~any(Snippet)) => match = None

\* A non-empty all-zero snippet that occurs exactly once in data_b was asked.
C4_Witness ==
    /\ match = None
    /\ Len(Snippet) > 0
    /\ ~any(Snippet)
    /\ Cardinality(Occurrences) = 1

\* ------------------------------------------------------------------ C5
\* C5: a report with address < first_address or address >= last_address
\* (as given at construction) fails with ValueError and leaves
\* known_address_offsets unchanged.
C5_OutOfRangeRejected ==
    (call.op = "report" /\ (call.address < ctor.first_address
                            \/ call.address >= ctor.last_address))
        => (call.ret = "ValueError" /\ known_address_offsets = call.pre)

\* A report at exactly last_address was rejected after breakpoints were added.
C5_Witness ==
    /\ call.op = "report"
    /\ call.address = ctor.last_address
    /\ call.ret = "ValueError"
    /\ Len(known_address_offsets) > 2

\* ------------------------------------------------------------------ C6
\* C6 (as claimed): after any sequence of valid reports the first entry is
\* still (first_address, first_offset) and the last entry is still
\* (last_address, last_offset).
\* Violated: a report with offset last_offset in the last segment pulls the
\* last entry back, and later reports are inserted behind it.
C6_BoundaryEntriesFixed ==
    /\ known_address_offsets[1] = <<ctor.first_address, ctor.first_offset>>
    /\ known_address_offsets[Len(known_address_offsets)]
          = <<ctor.last_address, ctor.last_offset>>

\* C6 (amended): the first entry is still (first_address, first_offset);
\* the last entry may be pulled back or be followed by a new entry, but the
\* tracker's last_address and last_offset stay as constructed and no
\* entry's address exceeds last_address.
C6_FirstEntryFixed ==
    /\ known_address_offsets[1] = <<ctor.first_address, ctor.first_offset>>
    /\ last_address = ctor.last_address
    /\ last_offset = ctor.last_offset
    /\ \A i \in 1 .. Len(known_address_offsets) :
          known_address_offsets[i][1] <= ctor.last_address

\* Valid reports have acted and the last entry is no longer the one the
\* tracker was constructed with.
C6_Witness ==
    /\ ValidReport
    /\ Len(known_address_offsets) > 2
    /\ known_address_offsets[Len(known_address_offsets)]
          # <<ctor.last_address, ctor.last_offset>>

\* ------------------------------------------------------------------ C7
\* C7: for every address with first_address <= address < last_address,
\* expected_offset_at returns the offset of the entry with the greatest
\* breakpoint address <= address, never None.
\* Violated: once the last entry has been pulled back, no entry lies after
\* the address and the loop falls through.
C7_ExpectedOffsetIsPreceding ==
    (call.op = "expected" /\ ctor.first_address <= call.address
                          /\ call.address < ctor.last_address)
        => call.val = Some(call.pre[Preceding(call.pre, call.address)][2])

\* ------------------------------------------------------------------ C8
\* C8: a report returns True (inserts a breakpoint) only if its offset
\* differs from the offset of the entry with the greatest address <= address.
C8_InsertOnlyIfOffsetDiffers ==
    (call.op = "report" /\ call.ret = "True")
        => call.offset # call.pre[Preceding(call.pre, call.address)][2]

\* A breakpoint was inserted behind the last entry of the list.
C8_Witness ==
    /\ call.op = "report"
    /\ call.ret = "True"
    /\ After(call.pre, call.address) = {}
    /\ Len(call.pre) > 2

\* ------------------------------------------------------------------ C9
\* C9: when the reported offset equals the offset of the first breakpoint
\* whose address is greater than the reported address, the report replaces
\* that breakpoint's address by the reported address, keeps its offset,
\* changes no other entry, keeps the length, and returns False.
C9_PullBackFollowing ==
    (/\ ValidReport
     /\ After(call.pre, call.address) # {}
     /\ call.pre[Following(call.pre, call.address)][2] = call.offset)
        => /\ call.ret = "False"
           /\ known_address_offsets =
                 [call.pre EXCEPT ![Following(call.pre, call.address)]
                                      = <<call.address, call.offset>>]
           /\ call.address < call.pre[Following(call.pre, call.address)][1]

\* The following breakpoint was pulled back although the preceding one
\* carries the same offset.
C9_Witness ==
    /\ ValidReport
    /\ After(call.pre, call.address) # {}
    /\ call.pre[Following(call.pre, call.address)][2] = call.offset
    /\ call.pre[Preceding(call.pre, call.address)][2] = call.offset
    /\ known_address_offsets # call.pre

\* ------------------------------------------------------------------ C10
\* C10: a valid report returns True exactly when it inserted one entry
\* (address, offset) between the preceding and the following breakpoint,
\* which happens exactly when the offset differs from both their offsets;
\* otherwise it returns False and the length is unchanged; when the offset
\* equals the preceding breakpoint's offset no entry changes.
\* Violated: with equal offsets before and behind, the following breakpoint
\* is pulled back instead of the report being ignored.
C10_InsertExactlyWhenDiffers ==
    ValidReport =>
        LET kao == call.pre
            p == Preceding(kao, call.address)
            differs ==
                /\ call.offset # kao[p][2]
                /\ After(kao, call.address) # {}
                      => call.offset # kao[Following(kao, call.address)][2]
        IN /\ (call.ret = "True") <=> differs
           /\ (call.ret = "True") =>
                 known_address_offsets
                    = SubSeq(kao, 1, p) \o << <<call.address, call.offset>> >>
                         \o SubSeq(kao, p + 1, Len(kao))
           /\ (call.ret = "False") => Len(known_address_offsets) = Len(kao)
           /\ (call.offset = kao[p][2]) => known_address_offsets = kao

\* ====================================================================
\* The cross-reference aligner (auto_align_by_xrefs.py)
\* ====================================================================
\* Python dicts are functions; a dict that is iterated in insertion order
\* (xrefs_2, the vote Counter) is the sequence of its items.
dict_set(d, k, v) == [x \in (DOMAIN d) \cup {k} |-> IF x = k THEN v ELSE d[x]]
dict_del(d, k) == [x \in (DOMAIN d) \ {k} |-> d[x]]

\* The outlier tolerance of the delta scan.
Tolerance == 65536

\* addr & 0xffff == 0
probably_spurious(addr) == addr % 65536 = 0

\* lib_address_maps.map_addr_from_to with Behavior.DROP: the translated
\* address, or None for an address the mapper does not cover.
map_addr_from_to(m, addr) == IF addr \in DOMAIN m THEN m[addr] ELSE None

\* Mutant of invert_from: an origin seen again is overwritten, not removed.
invert_from_overwrite(inv, to, from_) ==
    [map |-> dict_set(inv.map, from_, to), ambiguous |-> inv.ambiguous]

\* One pass of the inner loop of the inversion: origin from_ of destination to.
invert_from(inv, to, from_) ==
    IF from_ \in inv.ambiguous THEN inv
    ELSE IF from_ \in DOMAIN inv.map
    THEN [map |-> dict_del(inv.map, from_),
          ambiguous |-> inv.ambiguous \cup {from_}]
    ELSE [map |-> dict_set(inv.map, from_, to), ambiguous |-> inv.ambiguous]

\* The inner loop over froms[k..], left to right.
RECURSIVE invert_froms(_, _, _, _)
invert_froms(inv, to, froms, k) ==
    IF k > Len(froms) THEN inv
    ELSE invert_froms(invert_from(inv, to, froms[k]), to, froms, k + 1)

\* One pass of the outer loop of the inversion: the item (to, froms).
invert_item(inv, to, froms) ==
    IF probably_spurious(to) THEN inv ELSE invert_froms(inv, to, froms, 1)

\* Counter.update([key]) on a Counter kept as its items in insertion order.
counter_update(counter, key) ==
    IF \E i \in 1 .. Len(counter) : counter[i][1] = key
    THEN [i \in 1 .. Len(counter) |->
             IF counter[i][1] = key THEN <<key, counter[i][2] + 1>> ELSE counter[i]]
    ELSE Append(counter, <<key, 1>>)

\* Mutant of in_from_range: the aligned source range is not applied.
in_from_range_any(from_range, from_) == TRUE

\* from_range[0] <= from_ < from_range[1]
in_from_range(from_range, from_) ==
    from_range[1] <= from_ /\ from_ < from_range[2]

\* to_range[0] <= to < to_range[1]
in_to_range(to_range, to) == to_range[1] <= to /\ to < to_range[2]

\* The vote loop over froms[k..] of one destination.
RECURSIVE count_votes(_, _, _, _, _, _)
count_votes(counter, froms, k, from_range, m, reverse) ==
    IF k > Len(froms) THEN counter
    ELSE LET from_ == froms[k]
             from_converted == map_addr_from_to(m, from_)
             voted ==
                IF ~in_from_range(from_range, from_) THEN counter
                ELSE IF from_converted # None /\ from_converted.val \in DOMAIN reverse
                THEN counter_update(counter, reverse[from_converted.val])
                ELSE counter
         IN count_votes(voted, froms, k + 1, from_range, m, reverse)

\* Mutant of most_common_1: among equal counts the last key wins.
most_common_1_last(counter) ==
    LET best == Max({counter[i][2] : i \in 1 .. Len(counter)})
    IN counter[Max({i \in 1 .. Len(counter) : counter[i][2] = best})][1]

\* counter.most_common(1)[0][0]: the key with the highest count, the one
\* inserted first among equal counts.
most_common_1(counter) ==
    LET best == Max({counter[i][2] : i \in 1 .. Len(counter)})
    IN counter[Min({i \in 1 .. Len(counter) : counter[i][2] = best})][1]

\* abs(x)
abs(x) == IF x < 0 THEN 0 - x ELSE x

\* Mutant of is_outlier: no sample is taken for a mistake.
is_outlier_never(delta, current) == FALSE

\* Mutant of is_outlier: a difference of exactly the tolerance is dropped too.
is_outlier_inclusive(delta, current) == abs(delta - current) >= Tolerance

\* abs(delta - current_range_delta) > 0x10000
is_outlier(delta, current) == abs(delta - current) > Tolerance

\* A printed range line: start and end are None where '*' is printed.
range_line(start, end, delta) ==
    [kind |-> "range", start |-> start, end |-> end, delta |-> delta]
no_xrefs_line == [kind |-> "no usable xrefs", start |-> None, end |-> None, delta |-> 0]

\* Mutant of scan_delta: the first destination with votes becomes the start
\* of the running range.
scan_delta_anchored(cur, to, counter) ==
    IF Len(counter) = 0
    THEN [start |-> cur.start, delta |-> cur.delta, lines |-> <<>>,
          outcome |-> "skipped", to_remapped |-> None]
    ELSE LET to_remapped == most_common_1(counter)
             delta == to_remapped - to
             running == IF cur.delta = None THEN Some(delta) ELSE cur.delta
             anchor == IF cur.delta = None THEN Some(to) ELSE cur.start
         IN IF delta = running.val
            THEN [start |-> anchor, delta |-> running, lines |-> <<>>,
                  outcome |-> "absorbed", to_remapped |-> Some(to_remapped)]
            ELSE IF is_outlier(delta, running.val)
            THEN [start |-> anchor, delta |-> running, lines |-> <<>>,
                  outcome |-> "discarded", to_remapped |-> Some(to_remapped)]
            ELSE [start |-> Some(to), delta |-> Some(delta),
                  lines |-> <<range_line(anchor, Some(to - 1), running.val)>>,
                  outcome |-> "changed", to_remapped |-> Some(to_remapped)]

\* The body of the delta scan for one destination to inside to_range, given
\* its votes: the new running range, the lines printed and what happened.
scan_delta(cur, to, counter) ==
    IF Len(counter) = 0
    THEN [start |-> cur.start, delta |-> cur.delta, lines |-> <<>>,
          outcome |-> "skipped", to_remapped |-> None]
    ELSE LET to_remapped == most_common_1(counter)
             delta == to_remapped - to
             running == IF cur.delta = None THEN Some(delta) ELSE cur.delta
         IN IF delta = running.val
            THEN [start |-> cur.start, delta |-> running, lines |-> <<>>,
                  outcome |-> "absorbed", to_remapped |-> Some(to_remapped)]
            ELSE IF is_outlier(delta, running.val)
            THEN [start |-> cur.start, delta |-> running, lines |-> <<>>,
                  outcome |-> "discarded", to_remapped |-> Some(to_remapped)]
            ELSE [start |-> Some(to), delta |-> Some(delta),
                  lines |-> <<range_line(cur.start, Some(to - 1), running.val)>>,
                  outcome |-> "changed", to_remapped |-> Some(to_remapped)]

\* sorted(xrefs_1)
RECURSIVE sorted(_)
sorted(S) == IF S = {} THEN <<>> ELSE <<Min(S)>> \o sorted(S \ {Min(S)})

\* ------------------------------------- cross-reference aligner: the inputs
\* Longest origin list of a version-1 destination.
MaxFroms == 3

\* from_range and to_range, the half-open ranges given to auto_align_by_xrefs.
FromRange == <<256, 268>>
ToRange == <<131072, 131084>>

\* Version-1 origins: three inside FromRange and one at its upper bound.
Origins1 == {256, 260, 264, 268}
\* Version-1 destinations: one at the lower bound of ToRange, whose low 16
\* bits are zero, two more inside ToRange and one at its upper bound.
To0 == 131072
To1 == 131076
To2 == 131080
To3 == 131084
\* Version-2 destinations: To1 + 0x20, To2 + 0x20, To2 + 0x10020,
\* To2 + 0x10021, and one whose low 16 bits are zero.
DestA == 131108
DestA2 == 131112
DestB == 196648
DestC == 196649
DestS == 196608
Dests2 == {DestA, DestA2, DestB, DestC, DestS}

\* The mappers: every origin shifted by 16, or the same with 264 unmapped.
Mappers ==
    {[o \in Origins1 |-> Some(o + 16)],
     [o \in Origins1 \ {264} |-> Some(o + 16)]}

\* The ascending sequence of a set of integers and its reverse.
reversed(q) == [i \in 1 .. Len(q) |-> q[Len(q) + 1 - i]]
Orders(S) == {sorted(S), reversed(sorted(S))}

\* Origin lists: up to MaxFroms distinct origins, ascending or descending.
FromsLists(S, n) ==
    UNION {Orders(T) : T \in {U \in SUBSET S : Cardinality(U) <= n}}

\* Version-2 graphs: each version-2 origin is listed under the destinations
\* chosen for it; the dict holds the destinations that have origins, in
\* ascending or descending order.
Choices2 ==
    [{272} -> {{DestA}, {DestA2}, {DestB}, {DestC}, {DestS},
               {DestA, DestB}, {DestA, DestS}, {DestB, DestS}}]
Choices3 ==
    {c1 @@ c2 @@ c3 @@ c4 :
        c1 \in Choices2,
        c2 \in [{276} -> {{}, {DestA}, {DestA2}, {DestB}}],
        c3 \in [{280} -> {{}, {DestA}, {DestB}, {DestC}}],
        c4 \in [{284} -> {{DestA}}]}

froms_of(choice, d) == sorted({p \in DOMAIN choice : d \in choice[p]})

RECURSIVE items_of(_, _, _)
items_of(choice, order, k) ==
    IF k > Len(order) THEN <<>>
    ELSE (IF froms_of(choice, order[k]) = <<>> THEN <<>>
          ELSE << <<order[k], froms_of(choice, order[k])>> >>)
         \o items_of(choice, order, k + 1)

Xrefs2 == {items_of(c, o, 1) : c \in Choices3, o \in Orders(Dests2)}

Xrefs1 ==
    {(To0 :> f0) @@ (To1 :> f1) @@ (To2 :> f2) @@ (To3 :> <<256>>) :
        f0 \in {<<>>, <<256>>},
        f1 \in FromsLists(Origins1, MaxFroms), f2 \in FromsLists(Origins1, 1)}

\* ------------------------------- cross-reference aligner: the specification
\* sample: the destination scanned last, its votes, the winning destination,
\* what the scan did, and the running range and output before that scan.
NoSample == [to |-> 0, counter |-> <<>>, outcome |-> "none", to_remapped |-> None,
             start |-> None, delta |-> None, printed |-> <<>>]

InitXrefs ==
    /\ TrackerIdle
    /\ MatchIdle
    /\ DiffIdle
    /\ xrefs_1 \in Xrefs1
    /\ xrefs_2 \in Xrefs2
    /\ mapper \in Mappers
    /\ reverse_xrefs_2 = <<>>
    /\ ambiguous = {}
    /\ xpc = "invert"
    /\ next_2 = 0
    /\ next_1 = 0
    /\ current_range_start = None
    /\ current_range_delta = None
    /\ printed = <<>>
    /\ sample = NoSample

\* One pass of "for to, froms in xrefs_2.items()".
InvertItem ==
    /\ xpc = "invert"
    /\ next_2 < Len(xrefs_2)
    /\ LET item == xrefs_2[next_2 + 1]
           inv == invert_item([map |-> reverse_xrefs_2, ambiguous |-> ambiguous],
                              item[1], item[2])
       IN /\ reverse_xrefs_2' = inv.map
          /\ ambiguous' = inv.ambiguous
    /\ next_2' = next_2 + 1
    /\ UNCHANGED <<xrefs_1, xrefs_2, mapper, xpc, next_1, current_range_start,
                   current_range_delta, printed, sample>>
    /\ UNCHANGED tracker_vars
    /\ UNCHANGED match_vars
    /\ UNCHANGED diff_vars

\* The inversion loop is over; the delta scan starts.
InvertDone ==
    /\ xpc = "invert"
    /\ next_2 = Len(xrefs_2)
    /\ xpc' = "scan"
    /\ UNCHANGED <<xrefs_1, xrefs_2, mapper, reverse_xrefs_2, ambiguous, next_2,
                   next_1, current_range_start, current_range_delta, printed,
                   sample>>
    /\ UNCHANGED tracker_vars
    /\ UNCHANGED match_vars
    /\ UNCHANGED diff_vars

\* One pass of "for to in sorted(xrefs_1)".
ScanDestination ==
    /\ xpc = "scan"
    /\ next_1 < Len(sorted(DOMAIN xrefs_1))
    /\ LET to == sorted(DOMAIN xrefs_1)[next_1 + 1]
           counter == count_votes(<<>>, xrefs_1[to], 1, FromRange, mapper,
                                  reverse_xrefs_2)
           cur == [start |-> current_range_start, delta |-> current_range_delta]
           r == scan_delta(cur, to, counter)
       IN IF ~in_to_range(ToRange, to)
          THEN /\ sample' = [to |-> to, counter |-> <<>>, outcome |-> "out of range",
                             to_remapped |-> None,
                             start |-> current_range_start,
                             delta |-> current_range_delta, printed |-> printed]
               /\ UNCHANGED <<current_range_start, current_range_delta, printed>>
          ELSE /\ current_range_start' = r.start
               /\ current_range_delta' = r.delta
               /\ printed' = printed \o r.lines
               /\ sample' = [to |-> to, counter |-> counter, outcome |-> r.outcome,
                             to_remapped |-> r.to_remapped,
                             start |-> current_range_start,
                             delta |-> current_range_delta, printed |-> printed]
    /\ next_1' = next_1 + 1
    /\ UNCHANGED <<xrefs_1, xrefs_2, mapper, reverse_xrefs_2, ambiguous, xpc, next_2>>
    /\ UNCHANGED tracker_vars
    /\ UNCHANGED match_vars
    /\ UNCHANGED diff_vars

\* Mutant of final_lines: the final range line is printed in every case.
final_lines_always_range(start, delta) ==
    <<range_line(start, None, delta.val)>>

\* What is printed after the scan.
final_lines(start, delta) ==
    IF delta = None THEN <<no_xrefs_line>>
    ELSE <<range_line(start, None, delta.val)>>

\* The end of auto_align_by_xrefs.
Finish ==
    /\ xpc = "scan"
    /\ next_1 = Len(sorted(DOMAIN xrefs_1))
    /\ printed' = printed \o final_lines(current_range_start, current_range_delta)
    /\ xpc' = "done"
    /\ UNCHANGED <<xrefs_1, xrefs_2, mapper, reverse_xrefs_2, ambiguous, next_2,
                   next_1, current_range_start, current_range_delta, sample>>
    /\ UNCHANGED tracker_vars
    /\ UNCHANGED match_vars
    /\ UNCHANGED diff_vars

NextXrefs == InvertItem \/ InvertDone \/ ScanDestination \/ Finish

SpecXrefs == InitXrefs /\ [][NextXrefs]_vars

\* ---------------------------------- vocabulary of the claims C12 .. C16
\* auto_align_by_xrefs has just scanned a destination inside to_range.
Scanned == xpc = "scan" /\ sample.outcome \notin {"none", "out of range"}

\* The version-2 destinations under which origin p is listed; the same,
\* leaving out destinations whose low 16 bits are zero.
ListedUnder(p) ==
    {xrefs_2[k][1] : k \in {j \in 1 .. Len(xrefs_2) :
                               \E m \in 1 .. Len(xrefs_2[j][2]) : xrefs_2[j][2][m] = p}}
ListedUnderReal(p) == {d \in ListedUnder(p) : d % 65536 # 0}
AllOrigins2 ==
    UNION {{xrefs_2[k][2][m] : m \in 1 .. Len(xrefs_2[k][2])} : k \in 1 .. Len(xrefs_2)}

\* Positions in the origin list of the scanned destination whose origin is
\* inside from_range and translates to version-2 origin p.
OriginsVia(p) ==
    {k \in 1 .. Len(xrefs_1[sample.to]) :
        /\ FromRange[1] <= xrefs_1[sample.to][k]
        /\ xrefs_1[sample.to][k] < FromRange[2]
        /\ xrefs_1[sample.to][k] \in DOMAIN mapper
        /\ mapper[xrefs_1[sample.to][k]] = Some(p)}

\* Positions whose origin voted for version-2 destination d, as the spec
\* describes a vote: inside from_range and translated into the inverted map.
VotesFor(d) ==
    {k \in 1 .. Len(xrefs_1[sample.to]) :
        \E p \in DOMAIN reverse_xrefs_2 :
            k \in OriginsVia(p) /\ reverse_xrefs_2[p] = d}
Voted == {d \in Dests2 : VotesFor(d) # {}}

RECURSIVE TotalVotes(_, _)
TotalVotes(counter, k) ==
    IF k > Len(counter) THEN 0 ELSE counter[k][2] + TotalVotes(counter, k + 1)

\* ------------------------------------------------------------------ C12
\* C12 (as claimed): an origin listed under two distinct destinations of
\* version 2's graph is absent from the inverted map after the inversion
\* and contributes no vote, also when one of the two destinations has its
\* low 16 bits all zero.
\* Violated: a destination with zero low bits is skipped before its origins
\* are looked at, so the origin stays mapped to the other destination.
C12_AmbiguousOriginExcluded ==
    xpc \in {"scan", "done"} =>
        \A p \in AllOrigins2 :
            Cardinality(ListedUnder(p)) >= 2 => p \notin DOMAIN reverse_xrefs_2

\* C12 (amended): an origin listed under two distinct destinations neither
\* of which has its low 16 bits all zero is absent from the inverted map
\* after the inversion, in either dict order, and no vote of a scanned
\* destination comes from it.
C12_AmbiguousRealOriginExcluded ==
    /\ xpc \in {"scan", "done"} =>
          \A p \in AllOrigins2 :
              Cardinality(ListedUnderReal(p)) >= 2 => p \notin DOMAIN reverse_xrefs_2
    /\ Scanned =>
          TotalVotes(sample.counter, 1) =
             Cardinality(UNION {OriginsVia(p) :
                 p \in {q \in AllOrigins2 : Cardinality(ListedUnderReal(q)) = 1}})

\* A destination was scanned one of whose in-range origins translates to an
\* origin listed under two real destinations, and another origin did vote.
C12_Witness ==
    /\ Scanned
    /\ \E p \in AllOrigins2 :
          Cardinality(ListedUnderReal(p)) >= 2 /\ OriginsVia(p) # {}
    /\ sample.counter # <<>>

\* ------------------------------------------------------------------ C13
\* C13: a version-1 destination whose origins all lie outside from_range,
\* or none of whose translated origins is in the inverted map, casts zero
\* votes and is skipped: running range start and running delta stay as
\* they were and no line is printed.
C13_NoVotesSkipped ==
    (Scanned /\ Voted = {}) =>
        /\ sample.counter = <<>>
        /\ sample.outcome = "skipped"
        /\ current_range_start = sample.start
        /\ current_range_delta = sample.delta
        /\ printed = sample.printed

\* A destination whose only origin is outside from_range, although that
\* origin's translation is in the inverted map, was skipped while a range
\* was running.
C13_Witness ==
    /\ Scanned
    /\ sample.outcome = "skipped"
    /\ xrefs_1[sample.to] = <<268>>
    /\ 284 \in DOMAIN reverse_xrefs_2
    /\ sample.delta # None

\* ------------------------------------------------------------------ C14
\* C14: for a destination with at least one vote, the destination used to
\* compute delta has the highest vote count, and among destinations tied
\* for the highest count it is the one whose first vote came earliest.
C14_MostVotedFirstSeenWins ==
    (Scanned /\ Voted # {}) =>
        /\ sample.to_remapped # None
        /\ sample.to_remapped.val \in Voted
        /\ \A d \in Voted :
              \/ Cardinality(VotesFor(sample.to_remapped.val)) > Cardinality(VotesFor(d))
              \/ /\ Cardinality(VotesFor(sample.to_remapped.val)) = Cardinality(VotesFor(d))
                 /\ Min(VotesFor(sample.to_remapped.val)) <= Min(VotesFor(d))

\* Two destinations tied and the one voted for first, the numerically
\* greater one, was used.
C14_Witness ==
    /\ Scanned
    /\ sample.to_remapped # None
    /\ \E d \in Voted :
          /\ d < sample.to_remapped.val
          /\ Cardinality(VotesFor(d)) = Cardinality(VotesFor(sample.to_remapped.val))

\* ------------------------------------------------------------------ C15
\* The delta of the sample scanned last.
SampleDelta == sample.to_remapped.val - sample.to

\* C15: a sample whose delta differs from the running delta by more than
\* 0x10000 prints nothing and leaves running range start and delta
\* unchanged; a sample differing by 0x10000 or less, and not equal, prints
\* the closed range and opens a new one at its destination with its delta.
C15_OutlierDiscarded ==
    (Scanned /\ sample.to_remapped # None /\ sample.delta # None) =>
        /\ abs(SampleDelta - sample.delta.val) > 65536 =>
              /\ printed = sample.printed
              /\ current_range_start = sample.start
              /\ current_range_delta = sample.delta
        /\ (abs(SampleDelta - sample.delta.val) <= 65536
                /\ SampleDelta # sample.delta.val) =>
              /\ printed = Append(sample.printed,
                                  [kind |-> "range", start |-> sample.start,
                                   end |-> Some(sample.to - 1),
                                   delta |-> sample.delta.val])
              /\ current_range_start = Some(sample.to)
              /\ current_range_delta = Some(SampleDelta)

\* A sample differing from the running delta by exactly 0x10000 opened a
\* new range.
C15_Witness ==
    /\ Scanned
    /\ sample.to_remapped # None
    /\ sample.delta # None
    /\ abs(SampleDelta - sample.delta.val) = 65536
    /\ current_range_start = Some(sample.to)

\* ------------------------------------------------------------------ C16
\* Some destination inside to_range receives a vote.
SomeVote ==
    \E to \in DOMAIN xrefs_1 :
        /\ ToRange[1] <= to
        /\ to < ToRange[2]
        /\ \E k \in 1 .. Len(xrefs_1[to]) :
              /\ FromRange[1] <= xrefs_1[to][k]
              /\ xrefs_1[to][k] < FromRange[2]
              /\ xrefs_1[to][k] \in DOMAIN mapper
              /\ mapper[xrefs_1[to][k]].val \in DOMAIN reverse_xrefs_2

\* C16: auto_align_by_xrefs ends by printing exactly one of two things:
\* the 'no usable xrefs' message, if and only if no destination in the
\* target range ever received a vote, and then it is the only line;
\* otherwise one final open-ended range line with the running delta.
C16_FinalLine ==
    xpc = "done" =>
        /\ Len(printed) >= 1
        /\ \A i \in 1 .. Len(printed) - 1 :
              printed[i].kind = "range" /\ printed[i].end # None
        /\ IF SomeVote
           THEN /\ current_range_delta # None
                /\ printed[Len(printed)] =
                      [kind |-> "range", start |-> current_range_start,
                       end |-> None, delta |-> current_range_delta.val]
           ELSE printed = <<[kind |-> "no usable xrefs", start |-> None,
                             end |-> None, delta |-> 0]>>

\* The run ended with the 'no usable xrefs' message although destinations
\* in the target range had origins.
C16_Witness ==
    /\ xpc = "done"
    /\ printed[Len(printed)].kind = "no usable xrefs"
    /\ xrefs_1[To1] # <<>>
    /\ xrefs_1[To2] # <<>>

\* ====================================================================
\* The content aligner (auto_align_by_data.py): find_random_match,
\* find_division_points_in_range, print_results and diff
\* ====================================================================
\* The snippet sizes find_random_match tries, in this order.
MatchSizes == <<128, 64>>
\* int(2 ** pow2) for pow2 in [10, 9.5, 9, 8.5, 8, 7].
JumpAmounts == <<1024, 724, 512, 362, 256, 128>>
\* The sampling pass runs max((end_offset - start_offset) // 50, 100) times.
SampleDivisor == 50
MinSamples == 100

\* data[i] for a Python index i with -len <= i < len.
item(data, i) == IF i < 0 THEN data[Len(data) + i + 1] ELSE data[i + 1]

\* min(len(data_a), len(data_b), end - start)
min3(x, y, z) == Min({x, y, z})

\* Each match size is tried range(50) times.
Trials == 50

\* Mutant of randint: one more value above hi can be drawn.
randint_beyond(lo, hi) == lo .. (hi + 1)

\* random.randint(lo, hi): the values it can return, lo and hi included.
randint(lo, hi) == lo .. hi

\* check_match_at at every start offset random.randint(start, end - size)
\* can draw: the pairs <<offs, result>>.
trials(a, b, start, end, sz) ==
    {<<offs, check_match_at(a, b, offs, sz)>> : offs \in randint(start, end - sz)}

\* find_random_match: the set of values it can return, over all outcomes
\* of the random draws, from the k-th match size on.  A size larger than
\* the buffers or the range is skipped; a size that is tried returns the
\* first successful trial, and the next size is reached when every trial
\* of this one failed.
RECURSIVE find_random_match_from(_, _, _, _, _)
find_random_match_from(a, b, start, end, k) ==
    IF k > Len(MatchSizes) THEN {<<-1, -1>>}
    ELSE IF MatchSizes[k] > min3(Len(a), Len(b), end - start)
    THEN find_random_match_from(a, b, start, end, k + 1)
    ELSE LET t == trials(a, b, start, end, MatchSizes[k])
         IN {<<r[1], r[2].val>> : r \in {x \in t : x[2] # None}}
            \cup (IF \E x \in t : x[2] = None
                  THEN find_random_match_from(a, b, start, end, k + 1)
                  ELSE {})

find_random_match(a, b, start, end) == find_random_match_from(a, b, start, end, 1)

\* One pass of "for pow2 in [...]" of the right-boundary tightening, from
\* the k-th jump amount on: the new end_offset and moved_left.
RECURSIVE jump_pass(_, _, _, _, _, _)
jump_pass(a, b, end_offset, expected_offset, k, moved_left) ==
    IF k > Len(JumpAmounts)
    THEN [end_offset |-> end_offset, moved_left |-> moved_left]
    ELSE LET jump_amount == JumpAmounts[k]
             new_end_offset == end_offset - jump_amount
             m == check_match_at(a, b, new_end_offset, jump_amount \div 4)
         IN IF m # None /\ expected_offset # None
                        /\ m.val - new_end_offset = expected_offset.val
            THEN jump_pass(a, b, new_end_offset, expected_offset, k + 1, TRUE)
            ELSE jump_pass(a, b, end_offset, expected_offset, k + 1, moved_left)

\* The condition of the "crawl left" loop, evaluated left to right:
\* "True", "False", or the exception it raises.
crawl_test(a, b, end_offset, expected_offset) ==
    IF ~(end_offset < Len(a)) THEN "False"
    ELSE IF expected_offset = None THEN "TypeError"
    ELSE IF ~(end_offset + expected_offset.val < Len(b)) THEN "False"
    ELSE IF end_offset < 0 - Len(a) THEN "IndexError"
    ELSE IF end_offset + expected_offset.val < 0 - Len(b) THEN "IndexError"
    ELSE IF item(a, end_offset) = item(b, end_offset + expected_offset.val)
    THEN "True" ELSE "False"

\* Mutant of crawl_step: the crawl does not move.
crawl_step_stuck(end_offset) == end_offset

\* end_offset -= 1
crawl_step(end_offset) == end_offset - 1

\* range(max((end_offset - start_offset) // 50, 100))
sample_count(start_offset, end_offset) ==
    LET q == (end_offset - start_offset) \div SampleDivisor
    IN IF q > MinSamples THEN q ELSE MinSamples

\* sorted(sections, key=lambda s: s.address): stable, by address.
RECURSIVE sorted_sections(_)
sorted_sections(sections) ==
    IF sections = <<>> THEN <<>>
    ELSE LET lowest == Min({sections[i].address : i \in 1 .. Len(sections)})
             k == Min({i \in 1 .. Len(sections) : sections[i].address = lowest})
         IN <<sections[k]>>
            \o sorted_sections(SubSeq(sections, 1, k - 1)
                               \o SubSeq(sections, k + 1, Len(sections)))

\* A call of find_division_points_in_range: its arguments start_offset and
\* end_offset as passed (start_offset, end_arg), the end_offset it works
\* with, expected_offset, and its local state.
new_frame(self, start_offset, end_offset) ==
    [start_offset |-> start_offset,
     end_arg |-> end_offset,
     end_offset |-> end_offset,
     expected_offset |-> expected_offset_at(self, end_offset),
     pc |-> "jump",
     i |-> 0,
     samples |-> 0,
     outcomes |-> {},
     match_pos_a |-> None,
     match_pos_b |-> None,
     division_points |-> {},
     next_pair |-> 0]

\* ------------------------------------------------- content aligner: inputs
\* n bytes lo, lo + 1, ...: all different and none zero.
Content(lo, n) == [i \in 1 .. n |-> lo + i - 1]

\* A section with data, and a zero-initialised (bss) section.
DataSection(address, data) ==
    [address |-> address, size |-> Len(data), data |-> data, bss |-> FALSE]
BssSection(address, sz) ==
    [address |-> address, size |-> sz, data |-> <<>>, bss |-> TRUE]

\* Buffer A of n different bytes, and buffer B with one block of `extra`
\* new bytes inserted at offset p; both files have this one section at base.
OneInsert(base, n, p, extra) ==
    <<  <<DataSection(base, Content(1, n))>>,
        <<DataSection(base, SubSeq(Content(1, n), 1, p) \o Content(n + 1, extra)
                                \o SubSeq(Content(1, n), p + 1, n))>>  >>

\* As OneInsert, with blocks inserted at offsets p and q.
TwoInserts(base, n, p, q, extra) ==
    <<  <<DataSection(base, Content(1, n))>>,
        <<DataSection(base, SubSeq(Content(1, n), 1, p) \o Content(n + 1, extra)
                                \o SubSeq(Content(1, n), p + 1, q)
                                \o Content(n + 1 + extra, extra)
                                \o SubSeq(Content(1, n), q + 1, n))>>  >>

\* The same n different bytes in both files, in one section at base.
Identical(base, n) ==
    <<  <<DataSection(base, Content(1, n))>>,
        <<DataSection(base, Content(1, n))>>  >>

\* Buffer A of n different bytes at base_a; buffer B at base_b with `extra`
\* new bytes inserted at offset p and the last `cut` bytes of A left out.
ShiftedTail(base_a, base_b, n, p, extra, cut) ==
    <<  <<DataSection(base_a, Content(1, n))>>,
        <<DataSection(base_b, SubSeq(Content(1, n), 1, p) \o Content(n + 1, extra)
                                  \o SubSeq(Content(1, n), p + 1, n - cut))>>  >>

\* Small sections, too short for any sample, at addresses 16 and 32.
SmallSections ==
    {DataSection(16, <<1, 2, 3>>), BssSection(16, 3),
     DataSection(32, <<4, 5, 6>>), BssSection(32, 3),
     [address |-> 32, size |-> 4, data |-> <<4, 5, 6>>, bss |-> FALSE]}

\* Files of at most two small sections at different addresses, in any order.
SmallFiles ==
    {<<>>} \cup {<<x>> : x \in SmallSections}
    \cup {<<p[1], p[2]>> : p \in {q \in SmallSections \X SmallSections :
                                       q[1].address # q[2].address}}

\* Sections large enough to be sampled, B with inserted blocks.
InsertScenarios ==
    {OneInsert(0, 126, 66, 16), OneInsert(0, 130, 65, 16),
     OneInsert(4096, 224, 66, 16),
     TwoInserts(0, 192, 64, 128, 16), TwoInserts(4096, 192, 64, 128, 16),
     Identical(4096, 200), ShiftedTail(4096, 4112, 208, 66, 32, 16)}

\* The file pairs diff is run on.
Scenarios ==
    InsertScenarios
    \cup {<<fa, fb>> : fa \in SmallFiles,
                       fb \in {f \in SmallFiles :
                                 \A i \in 1 .. Len(f) - 1 : f[i].address < f[i + 1].address}}

\* ------------------------------------------ content aligner: specification
\* diff called on the file pair sc.
diff(sc) ==
    /\ TrackerIdle
    /\ MatchIdle
    /\ XrefIdle
    /\ code_file_a = sc[1]
    /\ code_file_b = sc[2]
    /\ dpc = "start"
    /\ section_index = 0
    /\ stack = <<>>
    /\ reported = FALSE
    /\ out = <<>>

InitDiff == \E sc \in Scenarios : diff(sc)

\* diff on the sections that are sampled.
InitAlign == \E sc \in InsertScenarios : diff(sc)

sections_A == sorted_sections(code_file_a)
sections_B == sorted_sections(code_file_b)
section_A == sections_A[section_index + 1]
section_B == sections_B[section_index + 1]

\* The call on top of the stack, and the stack with that call changed.
top == stack[Len(stack)]
with_top(f) == [stack EXCEPT ![Len(stack)] = f]

\* Everything the content aligner leaves alone.
DiffFrame == UNCHANGED match_vars /\ UNCHANGED xref_vars
             /\ UNCHANGED <<code_file_a, code_file_b>>
TrackerKept == UNCHANGED tracker_vars

\* diff: sorting and "assert len(sections_A) == len(sections_B)".
DiffStart ==
    /\ dpc = "start"
    /\ dpc' = IF Len(sections_A) = Len(sections_B) THEN "section" ELSE "AssertionError"
    /\ UNCHANGED <<section_index, stack, reported, out>>
    /\ TrackerKept
    /\ DiffFrame

\* Mutant of is_bss_equal: the zero-initialisation status is not compared.
is_bss_equal_unchecked(sa, sb) == TRUE

\* "assert section_A.is_bss() == section_B.is_bss()"
is_bss_equal(sa, sb) == sa.bss = sb.bss

\* diff: one pass of the loop over the section pairs up to the call of
\* find_division_points_in_range.
DiffSection ==
    /\ dpc = "section"
    /\ section_index < Len(sections_A)
    /\ IF ~is_bss_equal(section_A, section_B)
       THEN /\ dpc' = "AssertionError"
            /\ UNCHANGED <<section_index, stack, reported, out>>
            /\ TrackerKept
       ELSE IF section_A.bss
       THEN /\ section_index' = section_index + 1
            /\ UNCHANGED <<dpc, stack, reported, out>>
            /\ TrackerKept
       ELSE IF section_A.size # Len(section_A.data)
       THEN /\ dpc' = "AssertionError"
            /\ UNCHANGED <<section_index, stack, reported, out>>
            /\ TrackerKept
       ELSE LET fa == section_A.address
                fo == section_B.address - section_A.address
                la == section_A.address + section_A.size
                lo == (section_B.address + section_B.size)
                         - (section_A.address + section_A.size)
                t == DifferencesTracker(fa, fo, la, lo)
            IN /\ known_address_offsets' = t.known_address_offsets
               /\ last_address' = t.last_address
               /\ last_offset' = t.last_offset
               /\ ctor' = [first_address |-> fa, first_offset |-> fo,
                           last_address |-> la, last_offset |-> lo]
               /\ call' = NoCall
               /\ out' = Append(out, [kind |-> "section", index |-> section_index])
               /\ stack' = <<new_frame(t, 0, section_A.size)>>
               /\ reported' = FALSE
               /\ dpc' = "align"
               /\ UNCHANGED section_index
    /\ DiffFrame

\* diff: the loop over the section pairs is over.
DiffEnd ==
    /\ dpc = "section"
    /\ section_index = Len(sections_A)
    /\ dpc' = "done"
    /\ UNCHANGED <<section_index, stack, reported, out>>
    /\ TrackerKept
    /\ DiffFrame

\* One pass of "while moved_left": the for loop over the jump amounts.
JumpPass ==
    /\ dpc = "align"
    /\ top.pc = "jump"
    /\ \E a \in {section_A.data}, b \in {section_B.data} :
       \E r \in {jump_pass(a, b, top.end_offset, top.expected_offset, 1, FALSE)} :
          stack' = with_top([top EXCEPT !.end_offset = r.end_offset,
                                        !.pc = IF r.moved_left THEN "jump" ELSE "crawl"])
    /\ UNCHANGED <<dpc, section_index, reported, out>>
    /\ TrackerKept
    /\ DiffFrame

\* One evaluation of the crawl loop's condition: a step to the left, an
\* exception, or the start of the sampling pass over the tightened range.
Crawl ==
    /\ dpc = "align"
    /\ top.pc = "crawl"
    /\ \E a \in {section_A.data}, b \in {section_B.data} :
       \E c \in {crawl_test(a, b, top.end_offset, top.expected_offset)} :
          IF c = "True"
          THEN /\ stack' = with_top([top EXCEPT !.end_offset = crawl_step(top.end_offset)])
               /\ UNCHANGED dpc
          ELSE IF c = "False"
          THEN /\ stack' = with_top(
                      [top EXCEPT
                          !.pc = "sample",
                          !.i = 0,
                          !.samples = sample_count(top.start_offset, top.end_offset),
                          !.outcomes = find_random_match(a, b, top.start_offset,
                                                         top.end_offset),
                          !.division_points = {section_A.address + top.start_offset,
                                               section_A.address + top.end_offset}])
               /\ UNCHANGED dpc
          ELSE /\ dpc' = c
               /\ UNCHANGED stack
    /\ UNCHANGED <<section_index, reported, out>>
    /\ TrackerKept
    /\ DiffFrame

\* Mutant of sample_addr: the base address of section A is left out.
sample_addr_no_base(address_a, match_pos_a) == match_pos_a

\* addr = address_a + match_pos_a
sample_addr(address_a, match_pos_a) == address_a + match_pos_a

\* One pass of the sampling loop: find_random_match and, after a match,
\* the report to the tracker.
Sample ==
    /\ dpc = "align"
    /\ top.pc = "sample"
    /\ top.i < top.samples
    /\ \E m \in top.outcomes :
          IF m = <<-1, -1>>
          THEN /\ stack' = with_top([top EXCEPT !.i = top.i + 1,
                                                !.match_pos_a = Some(m[1]),
                                                !.match_pos_b = Some(m[2])])
               /\ UNCHANGED <<dpc, reported>>
               /\ TrackerKept
          ELSE \E addr \in {sample_addr(section_A.address, m[1])},
                  offs \in {(m[2] - m[1]) + (section_B.address - section_A.address)} :
               \E r \in {report_offset_at_address(tracker, addr, offs)} :
                  /\ known_address_offsets' = r.known_address_offsets
                  /\ call' = [op |-> "report", address |-> addr, offset |-> offs,
                              pre |-> known_address_offsets, ret |-> r.ret,
                              val |-> None]
                  /\ reported' = TRUE
                  /\ UNCHANGED <<last_address, last_offset, ctor>>
                  /\ IF r.ret = "ValueError"
                     THEN dpc' = "ValueError" /\ UNCHANGED stack
                     ELSE /\ UNCHANGED dpc
                          /\ stack' = with_top(
                                [top EXCEPT
                                    !.i = top.i + 1,
                                    !.match_pos_a = Some(m[1]),
                                    !.match_pos_b = Some(m[2]),
                                    !.division_points =
                                        IF r.ret = "True"
                                        THEN top.division_points \cup {addr}
                                        ELSE top.division_points])
    /\ UNCHANGED <<section_index, out>>
    /\ DiffFrame

\* The stack after the call on top has returned; diff goes on to print
\* when it was the outermost call.
returned == SubSeq(stack, 1, Len(stack) - 1)

\* The sampling loop is over: recurse when more than two division points
\* were collected, else return.
EndSampling ==
    /\ dpc = "align"
    /\ top.pc = "sample"
    /\ top.i = top.samples
    /\ IF Cardinality(top.division_points) > 2
       THEN /\ stack' = with_top([top EXCEPT !.pc = "recurse", !.next_pair = 1])
            /\ UNCHANGED dpc
       ELSE /\ stack' = returned
            /\ dpc' = IF Len(stack) = 1 THEN "print" ELSE "align"
    /\ UNCHANGED <<section_index, reported, out>>
    /\ TrackerKept
    /\ DiffFrame

\* One pass of the loop over the adjacent pairs of sorted division points:
\* the recursive call; after the last pair the call returns.
Recurse ==
    /\ dpc = "align"
    /\ top.pc = "recurse"
    /\ LET sorted_points == sorted(top.division_points)
       IN IF top.next_pair <= Len(sorted_points) - 1
          THEN /\ stack' = Append(with_top([top EXCEPT !.next_pair = top.next_pair + 1]),
                                  new_frame(tracker, sorted_points[top.next_pair],
                                            sorted_points[top.next_pair + 1]))
               /\ UNCHANGED dpc
          ELSE /\ stack' = returned
               /\ dpc' = IF Len(stack) = 1 THEN "print" ELSE "align"
    /\ UNCHANGED <<section_index, reported, out>>
    /\ TrackerKept
    /\ DiffFrame

\* diff: tracker.print_results() and on to the next section pair.
PrintResults ==
    /\ dpc = "print"
    /\ out' = out \o print_results(tracker)
    /\ section_index' = section_index + 1
    /\ dpc' = "section"
    /\ UNCHANGED <<stack, reported>>
    /\ TrackerKept
    /\ DiffFrame

NextDiff ==
    \/ DiffStart
    \/ DiffSection
    \/ DiffEnd
    \/ JumpPass
    \/ Crawl
    \/ Sample
    \/ EndSampling
    \/ Recurse
    \/ PrintResults

SpecDiff == InitDiff /\ [][NextDiff]_vars

\* diff is one sequential program: it keeps running until it ends.
SpecAlignFair == InitAlign /\ [][NextDiff]_vars /\ WF_vars(NextDiff)

\* -------------------------------------------- find_random_match: one call
\* The buffer pairs find_random_match is called on.
FindBuffers ==
    {<<sc[1][1].data, sc[2][1].data>> :
        sc \in {OneInsert(0, 130, 65, 16), Identical(0, 130), Identical(0, 100)}}

\* Its arguments start and end.
FindStarts == {0, 65}
FindEnds == {60, 64, 130}

\* find_random_match(data_a, data_b, start, end) is called.
InitFind ==
    /\ TrackerIdle
    /\ XrefIdle
    /\ DiffIdle
    /\ \E bufs \in FindBuffers : data_a = bufs[1] /\ data_b = bufs[2]
    /\ offset = 0
    /\ size = 0
    /\ match = Pending
    /\ \E start \in FindStarts, end \in FindEnds :
          frm = [pc |-> "size", start |-> start, end |-> end, k |-> 1, j |-> 0,
                 tried |-> <<0, 0>>, ret |-> <<>>]

FindFrame == /\ UNCHANGED <<data_a, data_b>>
             /\ UNCHANGED tracker_vars
             /\ UNCHANGED xref_vars
             /\ UNCHANGED diff_vars

\* The head of "for match_size in [128, 64]": the sizes are used up and the
\* sentinel is returned, or the size is skipped, or its trials start.
FindNextSize ==
    /\ frm.pc = "size"
    /\ IF frm.k > Len(MatchSizes)
       THEN frm' = [frm EXCEPT !.pc = "done", !.ret = <<-1, -1>>]
       ELSE IF MatchSizes[frm.k] > min3(Len(data_a), Len(data_b), frm.end - frm.start)
       THEN frm' = [frm EXCEPT !.k = frm.k + 1]
       ELSE frm' = [frm EXCEPT !.pc = "trial", !.j = 0]
    /\ UNCHANGED <<offset, size, match>>
    /\ FindFrame

\* One pass of "for j in range(50)": a random start offset, check_match_at
\* there, and the return on success.
FindTrial ==
    /\ frm.pc = "trial"
    /\ frm.j < Trials
    /\ \E offs \in randint(frm.start, frm.end - MatchSizes[frm.k]) :
       \E m \in {check_match_at(data_a, data_b, offs, MatchSizes[frm.k])} :
          /\ offset' = offs
          /\ size' = MatchSizes[frm.k]
          /\ match' = m
          /\ frm' = IF m # None
                    THEN [frm EXCEPT !.pc = "done", !.ret = <<offs, m.val>>,
                                     !.tried[frm.k] = frm.tried[frm.k] + 1]
                    ELSE [frm EXCEPT !.j = frm.j + 1,
                                     !.tried[frm.k] = frm.tried[frm.k] + 1]
    /\ FindFrame

\* All trials of this size failed: on to the next size.
FindTrialsOver ==
    /\ frm.pc = "trial"
    /\ frm.j = Trials
    /\ frm' = [frm EXCEPT !.pc = "size", !.k = frm.k + 1]
    /\ UNCHANGED <<offset, size, match>>
    /\ FindFrame

NextFind == FindNextSize \/ FindTrial \/ FindTrialsOver

SpecFind == InitFind /\ [][NextFind]_vars

\* ------------------------------------------------ content aligner: claims
\* diff has ended: it returned or an exception left it.
Ended == dpc \in {"done", "AssertionError", "TypeError", "IndexError", "ValueError"}

\* Buffer B is buffer A with one block of 16 new bytes inserted at offset p.
InsertedAt(a, b, p) ==
    /\ Len(b) = Len(a) + 16
    /\ SubSeq(b, 1, p) = SubSeq(a, 1, p)
    /\ SubSeq(b, p + 17, Len(b)) = SubSeq(a, p + 1, Len(a))

\* The files are one section each, at equal base addresses, B with one
\* 16-byte block inserted.
IsOneInsert ==
    /\ Len(code_file_a) = 1
    /\ Len(code_file_b) = 1
    /\ ~code_file_a[1].bss
    /\ ~code_file_b[1].bss
    /\ code_file_a[1].address = code_file_b[1].address
    /\ code_file_a[1].size = Len(code_file_a[1].data)
    /\ \E p \in 1 .. Len(code_file_a[1].data) - 1 :
          InsertedAt(code_file_a[1].data, code_file_b[1].data, p)

InsertionPoint ==
    CHOOSE p \in 1 .. Len(code_file_a[1].data) - 1 :
        InsertedAt(code_file_a[1].data, code_file_b[1].data, p)

\* The report with exactly one division point, at address base + p.
OneDivisionAt(base, p) ==
    <<report_line(base, Some(base + p - 1), 0),
      report_line(base + p, None, 16),
      [kind |-> "blank"]>>

\* ----------------------------------------------------------------- C11
\* C11: for buffers that differ by one 16-byte block inserted in B at
\* offset p (equal base addresses), when find_division_points_in_range
\* has returned the tracker holds exactly one division point: delta 0
\* before p and delta +16 at and after p, for every outcome of the sampling.
\* Violated: the boundary ends at the lowest sampled address at or after p,
\* or stays at the end of the section when nothing behind p is sampled.
C11_OneInsertOneDivision ==
    (dpc = "print" /\ IsOneInsert)
        => print_results(tracker) = OneDivisionAt(code_file_a[1].address, InsertionPoint)

\* The lines of out after its last "Section" line.
LastSectionLine ==
    Max({0} \cup {k \in 1 .. Len(out) : out[k].kind = "section"})
LastBlock == SubSeq(out, LastSectionLine + 1, Len(out))

\* ----------------------------------------------------------------- C17
\* C17: when no report reached the tracker for a section, what diff prints
\* for that section is an explicit "could not align" outcome and no delta
\* range lines.
\* Violated: diff always prints the tracker's ranges, here the two
\* boundary entries.
C17_NoMatchesNoRangeReport ==
    (dpc \in {"section", "done"} /\ LastSectionLine > 0 /\ ~reported)
        => /\ \A k \in 1 .. Len(LastBlock) : LastBlock[k].kind # "range"
           /\ \E k \in 1 .. Len(LastBlock) : LastBlock[k].kind = "could not align"

\* The i-th (from 0) address-sorted pair differs in zero-initialisation.
BssMismatch(i) ==
    /\ i < Len(sections_A)
    /\ i < Len(sections_B)
    /\ sections_A[i + 1].bss # sections_B[i + 1].bss

\* The tracker of section s exists.
TrackerCreatedFor(s) ==
    /\ ctor.first_address = s.address
    /\ ctor.last_address = s.address + s.size

\* ----------------------------------------------------------------- C18
\* C18: with different section counts diff ends in an assertion failure
\* before any section is processed; when the i-th sorted pair differs in
\* zero-initialisation status diff ends in an assertion failure at that
\* pair; in both cases no tracker is created and nothing is printed for
\* that pair or any later pair.
C18_PreconditionFailureAborts ==
    /\ (Len(sections_A) # Len(sections_B) /\ dpc # "start")
          => /\ dpc = "AssertionError"
             /\ out = <<>>
             /\ stack = <<>>
             /\ section_index = 0
             /\ \A k \in 1 .. Len(sections_A) : ~TrackerCreatedFor(sections_A[k])
    /\ \A i \in 0 .. Len(sections_A) - 1 :
          (Len(sections_A) = Len(sections_B) /\ BssMismatch(i))
             => /\ section_index <= i
                /\ section_index = i => dpc \in {"start", "section", "AssertionError"}
                /\ \A k \in 1 .. Len(out) :
                      out[k].kind = "section" => out[k].index < i
                /\ \A k \in i + 1 .. Len(sections_A) :
                      ~TrackerCreatedFor(sections_A[k])

\* The second pair differs in zero-initialisation: diff has processed and
\* printed the first pair and has ended in the assertion failure.
C18_Witness ==
    /\ dpc = "AssertionError"
    /\ section_index = 1
    /\ BssMismatch(1)
    /\ Len(out) > 1

\* ----------------------------------------------------------------- C19
\* C19: the range of every recursive call lies inside the range of the
\* call that made it, in buffer offsets: start_offset <= a < b <= end_offset.
\* Violated: the recursive call is handed division points, which are
\* addresses (address_a + offset); with a section base address other than
\* zero they lie outside the caller's range.
C19_SubRangeContained ==
    \A k \in 2 .. Len(stack) :
        /\ stack[k - 1].start_offset <= stack[k].start_offset
        /\ stack[k].start_offset < stack[k].end_arg
        /\ stack[k].end_arg <= stack[k - 1].end_arg

\* Every recursive call is on a range shorter than its caller's.
StrictlySmaller ==
    \A k \in 2 .. Len(stack) :
        stack[k].end_arg - stack[k].start_offset
            < stack[k - 1].end_offset - stack[k - 1].start_offset

\* ----------------------------------------------------------------- C20
\* C20: every call of find_division_points_in_range made by diff ends,
\* whatever the sampling draws (it returns or an exception leaves it), and
\* every recursive call is on a range strictly shorter than its caller's.
C20_Terminates ==
    /\ []StrictlySmaller
    /\ (dpc = "align") ~> (dpc # "align")

\* A recursive call that crawled left of the end it was given and has
\* finished its sampling loop.
C20_Witness ==
    /\ dpc = "align"
    /\ Len(stack) >= 2
    /\ top.pc = "sample"
    /\ top.i = top.samples
    /\ top.end_offset < top.end_arg

\* ------------------------------------------ tracker: printing, monotonicity
\* Positions (1-based) of the entries that start a run of equal offsets.
RunStarts(kao) ==
    {i \in 1 .. Len(kao) : i = 1 \/ kao[i - 1][2] # kao[i][2]}

\* The positions of the run of equal offsets that starts at position i.
Run(kao, i) ==
    {j \in i .. Len(kao) : \A m \in i .. j : kao[m][2] = kao[i][2]}

\* The range lines of the last print_results, without the closing empty line.
RangeLines == SubSeq(out, 1, Len(out) - 1)

\* ----------------------------------------------------------------- C23
\* C23: print_results prints one line per run of consecutive entries with
\* one offset, no two consecutive lines carry the same offset, each line
\* starts at the smallest address of its run, every line but the last ends
\* one below the next line's start and the last line is open-ended; the
\* tracker's known_address_offsets is left as it was.
C23_PrintCollapsesRuns ==
    call.op = "print" =>
        LET kao == call.pre
            starts == sorted(RunStarts(kao))
        IN /\ known_address_offsets = kao
           /\ Len(out) = Len(starts) + 1
           /\ out[Len(out)].kind = "blank"
           /\ \A k \in 1 .. Len(starts) :
                 /\ RangeLines[k].kind = "range"
                 /\ RangeLines[k].offs = kao[starts[k]][2]
                 /\ RangeLines[k].start
                       = Min({kao[j][1] : j \in Run(kao, starts[k])})
                 /\ RangeLines[k].end
                       = IF k < Len(starts)
                         THEN Some(RangeLines[k + 1].start - 1)
                         ELSE None
           /\ \A k \in 1 .. Len(starts) - 1 :
                 RangeLines[k].offs # RangeLines[k + 1].offs

\* print_results on a tracker whose first two entries, at different
\* addresses, carry one offset and are followed by an entry with another.
C23_Witness ==
    /\ call.op = "print"
    /\ Len(call.pre) >= 3
    /\ call.pre[1][2] = call.pre[2][2]
    /\ call.pre[1][1] < call.pre[2][1]
    /\ call.pre[3][2] # call.pre[2][2]

NonDecreasing(kao) ==
    \A i \in 1 .. Len(kao) - 1 : kao[i][1] <= kao[i + 1][1]

\* kao is pre with one entry inserted.
OneInserted(pre, kao) ==
    \E j \in 1 .. Len(kao) :
        pre = SubSeq(kao, 1, j - 1) \o SubSeq(kao, j + 1, Len(kao))

\* ----------------------------------------------------------------- C26
\* C26: after every valid report the addresses of known_address_offsets
\* are in non-decreasing order, the list is not shorter than before the
\* report, and an entry that was there before either is as it was or has
\* moved to a strictly smaller address.
C26_MonotonicBuildUp ==
    ValidReport =>
        /\ NonDecreasing(known_address_offsets)
        /\ Len(known_address_offsets) >= Len(call.pre)
        /\ \/ /\ Len(known_address_offsets) = Len(call.pre)
              /\ \A i \in 1 .. Len(call.pre) :
                    \/ known_address_offsets[i] = call.pre[i]
                    \/ known_address_offsets[i][1] < call.pre[i][1]
           \/ OneInserted(call.pre, known_address_offsets)

\* A report that moved an entry of a list of three or more entries.
C26_Witness ==
    /\ ValidReport
    /\ Len(call.pre) >= 3
    /\ Len(known_address_offsets) = Len(call.pre)
    /\ \E i \in 1 .. Len(call.pre) :
          known_address_offsets[i][1] < call.pre[i][1]

\* ----------------------------------------------------------------- C29
\* C29: the same valid report made again right after it returns False and
\* leaves known_address_offsets as the first call left it.
C29_RepeatedReportIsNoOp ==
    ValidReport =>
        report_offset_at_address(tracker, call.address, call.offset)
            = [known_address_offsets |-> known_address_offsets, ret |-> "False"]

\* The first of the two calls changed the list.
C29_Witness ==
    /\ ValidReport
    /\ known_address_offsets # call.pre
    /\ Len(known_address_offsets) >= 3

\* ------------------------------- cross-reference aligner: C24, C25, C30
\* The version-1 destinations inside to_range that receive votes, with the
\* inverted map as it is.
VotedDestinations ==
    {t \in DOMAIN xrefs_1 :
        /\ in_to_range(ToRange, t)
        /\ count_votes(<<>>, xrefs_1[t], 1, FromRange, mapper, reverse_xrefs_2) # <<>>}

\* ----------------------------------------------------------------- C24
\* C24: no destination whose low 16 bits are all zero takes part: none is a
\* value of the inverted map, and a version-1 destination of that kind
\* yields no delta sample and is neither the start of a printed range nor
\* the address after the end of one.
\* Violated: only version 2's destinations are tested; a version-1
\* destination with zero low bits is scanned like any other.
C24_SpuriousDestinationsExcluded ==
    /\ \A p \in DOMAIN reverse_xrefs_2 : ~probably_spurious(reverse_xrefs_2[p])
    /\ (sample.outcome # "none" /\ probably_spurious(sample.to))
          => sample.outcome \in {"out of range", "skipped"}
    /\ \A k \in 1 .. Len(printed) :
          printed[k].kind = "range" =>
             /\ printed[k].start # None => ~probably_spurious(printed[k].start.val)
             /\ printed[k].end # None => ~probably_spurious(printed[k].end.val + 1)

\* ----------------------------------------------------------------- C25
\* C25 (as claimed): the running range starts at the first destination
\* that received votes: the line printed on an accepted delta change runs
\* from the start of the running range, for the first range the first
\* destination with votes, to to - 1 with the delta current before the
\* change, and the new range starts at to with the new delta.
\* Violated: the first sample sets the running delta only; the start of
\* the first range stays None and is printed as '*'.
C25_RangeAnchoredAtFirstVoted ==
    (Scanned /\ sample.outcome = "changed") =>
        /\ printed = Append(sample.printed,
                            range_line(IF sample.start = None
                                       THEN Some(Min(VotedDestinations))
                                       ELSE sample.start,
                                       Some(sample.to - 1), sample.delta.val))
        /\ current_range_start = Some(sample.to)
        /\ current_range_delta = Some(SampleDelta)

\* C25 (amended): the first destination that received votes sets the
\* running delta and leaves the start of the running range open; the line
\* printed on an accepted delta change runs from the start of the running
\* range, open ('*') for the first line and the destination of the
\* previous change for every later one, to to - 1 with the delta current
\* before the change, and the new range starts at to with the new delta.
C25_FirstRangeOpenStart ==
    /\ (Scanned /\ sample.to_remapped # None /\ sample.delta = None) =>
          /\ sample.to = Min(VotedDestinations)
          /\ current_range_start = None
          /\ current_range_delta = Some(SampleDelta)
          /\ printed = <<>>
    /\ (Scanned /\ sample.outcome = "changed") =>
          /\ printed = Append(sample.printed,
                              range_line(sample.start, Some(sample.to - 1),
                                         sample.delta.val))
          /\ sample.start = None <=> sample.printed = <<>>
          /\ sample.start # None =>
                sample.start.val = sample.printed[Len(sample.printed)].end.val + 1
          /\ current_range_start = Some(sample.to)
          /\ current_range_delta = Some(SampleDelta)

\* The first accepted delta change: the printed line's start is open.
C25_Witness ==
    /\ Scanned
    /\ sample.outcome = "changed"
    /\ sample.start = None
    /\ Min(VotedDestinations) < sample.to
    /\ Len(printed) = 1

\* ----------------------------------------------------------------- C30
\* C30: the printed range lines are contiguous and ascending: every line
\* after the first starts one above the previous line's end and above the
\* previous line's start (the first line's start is open), consecutive
\* lines carry different deltas no more than 0x10000 apart, and a sample
\* further than 0x10000 from the running delta adds nothing to the output.
C30_ContiguousAscendingRanges ==
    /\ \A k \in 2 .. Len(printed) :
          (printed[k].kind = "range" /\ printed[k - 1].kind = "range") =>
             /\ printed[k - 1].end # None
             /\ printed[k].start = Some(printed[k - 1].end.val + 1)
             /\ printed[k - 1].start # None =>
                   printed[k - 1].start.val < printed[k].start.val
             /\ printed[k].delta # printed[k - 1].delta
             /\ abs(printed[k].delta - printed[k - 1].delta) <= 65536
    /\ (Scanned /\ sample.to_remapped # None /\ sample.delta # None
            /\ abs(SampleDelta - sample.delta.val) > 65536) =>
          printed = sample.printed

\* auto_align_by_xrefs has ended with three range lines printed.
C30_Witness ==
    /\ xpc = "done"
    /\ Len(printed) = 3
    /\ \A k \in 1 .. 3 : printed[k].kind = "range"

\* The call f has finished the right-boundary tightening.
Tightened(f) == f.pc \in {"sample", "recurse"}

\* C27: in every call of find_division_points_in_range the end boundary
\* stays at or below the end it was called with and never goes below
\* index 0, after the tightening it is not below start_offset, and no
\* read of a buffer is out of range.
C27_TightenedEndInRange ==
    /\ dpc # "IndexError"
    /\ \A k \in 1 .. Len(stack) :
          /\ stack[k].end_offset <= stack[k].end_arg
          /\ stack[k].end_offset >= 0
          /\ Tightened(stack[k]) => stack[k].start_offset <= stack[k].end_offset

\* C28: every address the sampling pass reports to the tracker, in the
\* outermost call and in every recursive call, is at or above the tracker's
\* first address and below its last address, and no report raises the
\* tracker's ValueError.
C28_SampledAddressesInRange ==
    /\ dpc # "ValueError"
    /\ call.op = "report" =>
          /\ call.ret # "ValueError"
          /\ ctor.first_address <= call.address
          /\ call.address < ctor.last_address

\* A recursive call has just reported the address of the match it drew.
C28_Witness ==
    /\ dpc = "align"
    /\ Len(stack) >= 2
    /\ top.pc = "sample"
    /\ top.match_pos_a # None
    /\ top.match_pos_a # Some(-1)
    /\ call.op = "report"
    /\ call.address = sample_addr(section_A.address, top.match_pos_a.val)

\* The address delta implied by a match at position m of buffer B for the
\* snippet at position c of buffer A.
implied_delta(c, m) == (m + section_B.address) - (c + section_A.address)

\* A pass of the jump search moves the end boundary of the call on top.
JumpMovesEnd ==
    /\ dpc = "align"
    /\ top.pc = "jump"
    /\ Len(stack') = Len(stack)
    /\ stack'[Len(stack')].end_offset < top.end_offset

\* C21: the jump search moves the end boundary to a candidate position only
\* when a unique match at the candidate implies, as an address delta, the
\* delta the tracker expects at the address of the end boundary, also for
\* base addresses that differ or are not zero.
C21_JumpOnlyOnExpectedDelta ==
    [][JumpMovesEnd =>
          \E k \in 1 .. Len(JumpAmounts) :
             \E c \in {stack'[Len(stack')].end_offset} :
             \E m \in {check_match_at(section_A.data, section_B.data, c,
                                       JumpAmounts[k] \div 4)} :
                /\ m # None
                /\ Some(implied_delta(c, m.val))
                      = expected_offset_at(tracker, section_A.address + top.end_offset)]_vars

\* A start offset has been drawn for the current match size.
Drawn == frm.pc \in {"trial", "done"} /\ match # Pending

\* The size MatchSizes[k] is skipped: it exceeds a buffer or the range.
Skipped(k) == MatchSizes[k] > min3(Len(data_a), Len(data_b), frm.end - frm.start)

\* A size larger than end - start has no trial, and the call returns the
\* sentinel exactly when every size was skipped or failed all its trials;
\* any other return value is the offset drawn last with its match.
SkipAndSentinel ==
    /\ \A k \in 1 .. Len(MatchSizes) :
          MatchSizes[k] > frm.end - frm.start => frm.tried[k] = 0
    /\ frm.pc = "done" =>
          /\ frm.ret = <<-1, -1>> <=>
                \A k \in 1 .. Len(MatchSizes) :
                   \/ Skipped(k) /\ frm.tried[k] = 0
                   \/ frm.tried[k] = Trials /\ match = None
          /\ frm.ret # <<-1, -1>> =>
                /\ match # None
                /\ frm.ret = <<offset, match.val>>

\* C22 as stated: every start offset drawn for a match size is in the
\* half-open interval [start, end - size); a size above end - start is
\* skipped without a trial; the sentinel is returned when both sizes are
\* skipped or fail all 50 trials.
C22_OffsetsHalfOpen ==
    /\ Drawn => frm.start <= offset /\ offset < frm.end - size
    /\ SkipAndSentinel

\* C22 amended: the interval of the start offsets is closed,
\* [start, end - size].
C22_OffsetsClosed ==
    /\ Drawn => frm.start <= offset /\ offset <= frm.end - size
    /\ SkipAndSentinel

\* The call returned a match found at the start offset end - size.
C22_Witness ==
    /\ frm.pc = "done"
    /\ frm.ret # <<-1, -1>>
    /\ frm.ret[1] = frm.end - size
    /\ offset = frm.end - size
====
